---------------------------- MODULE Spec2Model ----------------------------
(***************************************************************************)
(* A model of gpt/model.py: the corpus batcher (DataLoaderLite), the       *)
(* construction and forward pass of the Transformer (with its causal       *)
(* self-attention), and the pretrained-weight importer.                    *)
(*                                                                         *)
(* Python sequences are 0-based; TLA+ sequences are 1-based.  A Python     *)
(* index i is element i+1 of the sequence that models it.                  *)
(***************************************************************************)
EXTENDS Integers, Sequences, FiniteSets, TLC

(***************************************************************************)
(* Bounds of the model.                                                    *)
(***************************************************************************)
MaxTokens == 13    \* longest token stream, len(self.tokens)
MaxB == 2          \* largest batch size B of the batcher
MaxT == 3          \* largest window length T of the batcher
MaxCalls == 16     \* calls of next_batch made by the training loop
MaxSeqLen == 3     \* largest config.max_seq_len
MaxLayers == 2     \* largest config.n_layers
MaxHeads == 2      \* largest config.n_heads
MaxEmbd == 3       \* largest config.n_embd
MaxVocab == 2      \* largest config.vocab_size
MaxBatch == 2      \* largest batch dimension of a forward call

VARIABLES
    \* ---- DataLoaderLite
    tokens,            \* self.tokens
    B,                 \* self.B
    T,                 \* self.T
    current_position,  \* self.current_position
    x,                 \* inputs returned by the last next_batch
    y,                 \* targets returned by the last next_batch
    loader_status,     \* "ready" | "ok" | "error" (next_batch raised)
    calls,             \* next_batch calls made so far (the loop's step index)
    wraps,             \* how many of them reset current_position to 0
    \* ---- Transformer
    config,            \* the ModelArgs the model is built from
    model_status,      \* "none" | "built" | "error" (the constructor raised)
    model,             \* the constructed module tree
    idx,               \* token ids handed to forward, B x T
    targets,           \* targets handed to forward, B x T, or None
    fwd_status,        \* "idle" | "ok" | "assert" | "error"
    logits,            \* logits returned by forward
    loss,              \* loss returned by forward
    evaluated,         \* the submodules forward evaluated, in order
    idx0,              \* input of the forward call before the perturbation
    logits0,           \* logits of the forward call before the perturbation
    \* ---- a CausalSelfAttention module called on its own
    attn_config,       \* the ModelArgs it is built from
    attn_status,       \* "none" | "built" | "init_error" | "ok" | "error"
    attn,              \* the constructed module
    attn_x,            \* activations handed to forward, B x T x C
    attn_y,            \* activations returned by forward
    \* ---- Transformer.from_pretrained
    preset,            \* the configuration of the model type asked for
    sd_hf,             \* the checkpoint's state dict, in its own order
    sd,                \* the new model's state dict
    import_pc,         \* "start" | "copy" | "done" | "raised"
    import_k,          \* position of the loop of line 197 in the checkpoint's keys
    result             \* what the caller of from_pretrained gets

loader_vars == <<tokens, B, T, current_position, x, y, loader_status, calls, wraps>>

model_vars == <<config, model_status, model, idx, targets, fwd_status, logits, loss,
                evaluated, idx0, logits0>>

attn_vars == <<attn_config, attn_status, attn, attn_x, attn_y>>

import_vars == <<preset, sd_hf, sd, import_pc, import_k, result>>

vars == <<loader_vars, model_vars, attn_vars, import_vars>>

\* what each component leaves alone
not_loader_vars == <<model_vars, attn_vars, import_vars>>
not_model_vars == <<loader_vars, attn_vars, import_vars>>
not_attn_vars == <<loader_vars, model_vars, import_vars>>
not_import_vars == <<loader_vars, model_vars, attn_vars>>

\* no tensor (Python's None where a tensor may stand)
None == <<>>

Min(a, b) == IF a < b THEN a ELSE b

(***************************************************************************)
(* Python slicing s[a:b] with 0 <= a, 0 <= b: the elements at the 0-based  *)
(* indices a .. b-1 that exist (a slice never raises, it is cut short).    *)
(***************************************************************************)
PySlice(s, a, b) == SubSeq(s, a + 1, Min(b, Len(s)))

\* s[:-1]
ButLast(s) == SubSeq(s, 1, Len(s) - 1)

\* s[1:]
FromSecond(s) == SubSeq(s, 2, Len(s))

\* tensor.view(b, t) of a flat tensor raises unless it holds b*t elements
CanView(flat, b, t) == Len(flat) = b * t

\* a view that walks the flat tensor column by column
View_ColumnMajor(flat, b, t) == [r \in 1..b |-> [c \in 1..t |-> flat[(c - 1) * b + r]]]

\* flat.view(b, t): row-major, element [r][c] is flat[r*t + c]
View(flat, b, t) == [r \in 1..b |-> [c \in 1..t |-> flat[(r - 1) * t + c]]]

(***************************************************************************)
(* DataLoaderLite                                                          *)
(***************************************************************************)
\* The streams the tokenizer may deliver: 0,1,2,... and one with repeats.
Streams(m) == { [i \in 1..m |-> i - 1], [i \in 1..m |-> (7 * i + 3) % 5] }

\* a reset test that also fires when the next read ends exactly at the end
NextPosition_Geq(pos, b, t, m) ==
    IF (pos + b * t) + (b * t + 1) >= m THEN 0 ELSE pos + b * t

\* a reset test that forgets the one extra token of the target
NextPosition_NoPlusOne(pos, b, t, m) ==
    IF (pos + b * t) + (b * t) > m THEN 0 ELSE pos + b * t

\* lines 234-237: the cursor after a call made at cursor pos
NextPosition(pos, b, t, m) ==
    IF (pos + b * t) + (b * t + 1) > m THEN 0 ELSE pos + b * t

\* line 230
ReadBuf(toks, pos, b, t) == PySlice(toks, pos, pos + b * t + 1)

LoaderInit ==
    /\ B \in 1..MaxB
    /\ T \in 1..MaxT
    /\ \E m \in 1..MaxTokens : tokens \in Streams(m)
    /\ current_position = 0
    /\ x = None
    /\ y = None
    /\ loader_status = "ready"
    /\ calls = 0
    /\ wraps = 0

next_batch ==
    /\ loader_status # "error"
    /\ calls < MaxCalls
    /\ LET buf == ReadBuf(tokens, current_position, B, T)
           xin == ButLast(buf)
           yin == FromSecond(buf)
       IN  IF CanView(xin, B, T) /\ CanView(yin, B, T)
           THEN /\ x' = View(xin, B, T)
                /\ y' = View(yin, B, T)
                /\ current_position' = NextPosition(current_position, B, T, Len(tokens))
                /\ loader_status' = "ok"
                /\ calls' = calls + 1
                /\ wraps' = IF current_position' = 0 THEN wraps + 1 ELSE wraps
           ELSE /\ loader_status' = "error"
                /\ calls' = calls + 1
                /\ UNCHANGED <<x, y, current_position, wraps>>
    /\ UNCHANGED <<tokens, B, T>>
    /\ UNCHANGED not_loader_vars

LoaderNext == next_batch

(***************************************************************************)
(* Tensors.  A tensor is its shape and its values; the value at a position *)
(* (the vector along the embedding axis) is a symbolic expression naming   *)
(* the parameters and the inputs it is computed from, so that two          *)
(* activations are equal exactly when the same computation is applied to   *)
(* the same inputs.  An expression is a tuple whose first element names    *)
(* the operation.                                                          *)
(***************************************************************************)
NoTensor == [present |-> FALSE, shape |-> <<>>, val |-> <<>>]

Tensor(shape, val) == [present |-> TRUE, shape |-> shape, val |-> val]

\* the elements 1..n of a Python range(n), as a sequence
Range(n) == [i \in 1..n |-> i]

(***************************************************************************)
(* CausalSelfAttention                                                     *)
(***************************************************************************)
\* a mask that admits every key
Tril_AllOnes(n) == [i \in 1..n |-> [j \in 1..n |-> 1]]

\* line 50: torch.tril(torch.ones(n, n)); row i (0-based) holds ones at 0..i
Tril(n) == [i \in 1..n |-> [j \in 1..n |-> IF j <= i THEN 1 ELSE 0]]

\* lines 41-44: the two assertions of the constructor
HeadsDivideEmbd(n_embd, n_heads) ==
    /\ (n_embd \div n_heads) * n_heads = n_embd
    /\ n_embd % n_heads = 0

\* lines 34-51: CausalSelfAttention.__init__; ok is FALSE when it raises
CausalSelfAttentionInit(cfg) ==
    [ ok          |-> HeadsDivideEmbd(cfg.n_embd, cfg.n_heads),
      max_seq_len |-> cfg.max_seq_len,
      n_embd      |-> cfg.n_embd,
      n_heads     |-> cfg.n_heads,
      head_dim    |-> cfg.n_embd \div cfg.n_heads,
      bias        |-> Tril(cfg.max_seq_len) ]

\* line 74: self.bias[:,:,:T,:T]; slicing past the end is cut short
MaskSlice(bias, t) ==
    [i \in 1..Min(t, Len(bias)) |-> [j \in 1..Min(t, Len(bias)) |-> bias[i][j]]]

\* line 74: masked_fill broadcasts a (1,1,m,m) mask over (B,nh,T,T): each of the
\* last two dimensions must be T or 1
Broadcastable(m, t) == m = t \/ m = 1

Expand(mask, t) ==
    [i \in 1..t |-> [j \in 1..t |->
        mask[IF Len(mask) = 1 THEN 1 ELSE i][IF Len(mask) = 1 THEN 1 ELSE j]]]

\* line 73: the scores q.k/sqrt(hs) are finite numbers
Scores(t) == [i \in 1..t |-> [j \in 1..t |-> "finite"]]

\* line 74: att.masked_fill(mask == 0, -inf)
MaskedFill(att, mask) ==
    [i \in 1..Len(att) |-> [j \in 1..Len(att) |->
        IF mask[i][j] = 0 THEN "-inf" ELSE att[i][j]]]

\* line 75: softmax gives weight exactly 0 to a score of -inf (exp(-inf) = 0) and
\* a positive weight to a finite score
Softmax(att) ==
    [i \in 1..Len(att) |-> [j \in 1..Len(att) |->
        IF att[i][j] = "-inf" THEN 0 ELSE 1]]

\* lines 67-76, one query position: the keys and values that enter the weights
\* and the weighted sum are those of weight > 0; a term of weight 0 adds nothing
Attended(w, u) ==
    LET keep == SelectSeq(Range(Len(w)), LAMBDA j : w[j] # 0)
    IN  [k \in 1..Len(keep) |-> <<"kv", keep[k], u[keep[k]]>>]

\* lines 62-80: CausalSelfAttention.forward of the attention of layer l on
\* activations xin of shape B x T x C; NoTensor when it raises
CausalSelfAttentionForward(self, l, xin) ==
    LET b == xin.shape[1]
        t == xin.shape[2]
        c == xin.shape[3]
        mask == MaskSlice(self.bias, t)
    IN  IF \/ c # self.n_embd                          \* c_attn: Linear(n_embd, .)
           \/ self.n_heads * (c \div self.n_heads) # c \* view(B, T, nh, C // nh)
           \/ ~Broadcastable(Len(mask), t)             \* masked_fill
        THEN NoTensor
        ELSE LET w == Softmax(MaskedFill(Scores(t), Expand(mask, t)))
             IN  Tensor(<<b, t, c>>,
                   [r \in 1..b |-> [i \in 1..t |->
                       <<"attn", l, xin.val[r][i], Attended(w[i], xin.val[r])>>]])

(***************************************************************************)
(* Position-wise layers: each acts on the embedding axis of one position.  *)
(***************************************************************************)
Pointwise(name, l, xin) ==
    IF ~xin.present THEN NoTensor
    ELSE Tensor(xin.shape,
           [r \in 1..xin.shape[1] |-> [i \in 1..xin.shape[2] |->
               <<name, l, xin.val[r][i]>>]])

\* lines 116-117, 150: elementwise sum of two tensors of one shape
AddTensors(a, b) ==
    IF ~a.present \/ ~b.present THEN NoTensor
    ELSE Tensor(a.shape,
           [r \in 1..a.shape[1] |-> [i \in 1..a.shape[2] |->
               <<"add", a.val[r][i], b.val[r][i]>>]])

\* lines 95-99: FeedForward.forward (c_fc, gelu, c_proj)
FeedForwardForward(l, xin) == Pointwise("mlp", l, xin)

\* lines 102-113: TransformerBlock.__init__
TransformerBlockInit(cfg) ==
    LET a == CausalSelfAttentionInit(cfg)
    IN  [ok |-> a.ok, attn |-> a]

\* lines 115-118: TransformerBlock.forward
TransformerBlockForward(block, l, xin) ==
    IF ~xin.present THEN NoTensor
    ELSE LET a  == CausalSelfAttentionForward(block.attn, l, Pointwise("ln_1", l, xin))
             x1 == AddTensors(xin, a)
         IN  AddTensors(x1, FeedForwardForward(l, Pointwise("ln_2", l, x1)))

(***************************************************************************)
(* Transformer                                                             *)
(***************************************************************************)
NoModel == [h |-> <<>>]

\* lines 122-132: Transformer.__init__; ok is FALSE when a submodule raises
TransformerInit(cfg) ==
    LET h == [l \in 1..cfg.n_layers |-> TransformerBlockInit(cfg)]
    IN  [ok |-> \A l \in 1..cfg.n_layers : h[l].ok, h |-> h]

\* a length check that lets every length through
SeqLenOk_Never(t, max_seq_len) == TRUE

\* line 145: assert T <= self.config.max_seq_len
SeqLenOk(t, max_seq_len) == t <= max_seq_len

\* lines 152-153: the blocks h[1..n] applied in order
RECURSIVE ApplyBlocks(_, _, _)
ApplyBlocks(h, n, xin) ==
    IF n = 0 THEN xin
    ELSE TransformerBlockForward(h[n], n, ApplyBlocks(h, n - 1, xin))

NumRows(m) == Len(m)
NumCols(m) == Len(m[1])

\* lines 142-160: Transformer.forward
TransformerForward(mdl, cfg, ids, tgt) ==
    LET b == NumRows(ids)
        t == NumCols(ids)
        raised(how, seen) ==
            [status |-> how, logits |-> NoTensor, loss |-> NoTensor, evaluated |-> seen]
    IN  IF ~SeqLenOk(t, cfg.max_seq_len) THEN raised("assert", <<>>)
        \* line 148: wpe is an Embedding of max_seq_len rows
        ELSE IF \E p \in 0..(t - 1) : p >= cfg.max_seq_len THEN raised("error", <<"wpe">>)
        \* line 149: wte is an Embedding of vocab_size rows
        ELSE IF \E r \in 1..b, i \in 1..t : ids[r][i] < 0 \/ ids[r][i] >= cfg.vocab_size
             THEN raised("error", <<"wpe", "wte">>)
        ELSE
        LET x0 == Tensor(<<b, t, cfg.n_embd>>,
                    [r \in 1..b |-> [i \in 1..t |->
                        <<"add", <<"wte", ids[r][i]>>, <<"wpe", i - 1>>>>]])
            xn == ApplyBlocks(mdl.h, Len(mdl.h), x0)
            blocks == [l \in 1..Len(mdl.h) |-> "h"]
        IN  IF ~xn.present THEN raised("error", <<"wpe", "wte">> \o blocks)
            ELSE
            LET xf == Pointwise("ln_f", 0, xn)
                lg == Tensor(<<b, t, cfg.vocab_size>>,
                        [r \in 1..b |-> [i \in 1..t |-> <<"lm_head", xf.val[r][i]>>]])
                seen == <<"wpe", "wte">> \o blocks \o <<"ln_f", "lm_head">>
            IN  IF tgt = None
                THEN [status |-> "ok", logits |-> lg, loss |-> NoTensor, evaluated |-> seen]
                \* line 159: cross_entropy of B*T rows against B*T targets
                ELSE IF NumRows(tgt) * NumCols(tgt) # b * t
                THEN raised("error", seen \o <<"cross_entropy">>)
                ELSE [status |-> "ok", logits |-> lg,
                      loss |-> Tensor(<<>>, <<"cross_entropy", b * t>>),
                      evaluated |-> seen \o <<"cross_entropy">>]

(***************************************************************************)
(* Constructing a model and calling it.                                    *)
(***************************************************************************)
Configs ==
    [ max_seq_len : 1..MaxSeqLen, vocab_size : 1..MaxVocab, n_layers : 0..MaxLayers,
      n_heads : 1..MaxHeads, n_embd : 1..MaxEmbd ]

\* token matrices of shape b x t: all zeros, and position modulo the vocabulary
Patterns(b, t, v) ==
    { [r \in 1..b |-> [i \in 1..t |-> 0]], [r \in 1..b |-> [i \in 1..t |-> (r + i) % v]] }

\* every token matrix of shape b x t over a vocabulary of v tokens
AllInputs(b, t, v) == [1..b -> [1..t -> 0..(v - 1)]]

ModelStart ==
    /\ model_status = "none"
    /\ model = NoModel
    /\ fwd_status = "idle"
    /\ logits = NoTensor
    /\ loss = NoTensor
    /\ evaluated = <<>>
    /\ idx0 = <<>>
    /\ logits0 = NoTensor

\* any configuration; inputs of every shape up to one position too long
ModelInit ==
    /\ config \in Configs
    /\ \E b \in 1..MaxBatch, t \in 1..(config.max_seq_len + 1) :
          /\ idx \in Patterns(b, t, config.vocab_size)
          /\ targets \in {None} \cup Patterns(b, t, config.vocab_size)
    /\ ModelStart

\* model = Transformer(config)
Construct ==
    /\ model_status = "none"
    /\ LET m == TransformerInit(config)
       IN  IF m.ok
           THEN model_status' = "built" /\ model' = [h |-> m.h]
           ELSE model_status' = "error" /\ model' = NoModel
    /\ UNCHANGED <<config, idx, targets, fwd_status, logits, loss, evaluated, idx0, logits0>>
    /\ UNCHANGED not_model_vars

\* logits, loss = model(idx, targets)
Forward ==
    /\ model_status = "built"
    /\ fwd_status = "idle"
    /\ LET out == TransformerForward(model, config, idx, targets)
       IN  /\ fwd_status' = out.status
           /\ logits' = out.logits
           /\ loss' = out.loss
           /\ evaluated' = out.evaluated
    /\ UNCHANGED <<config, model_status, model, idx, targets, idx0, logits0>>
    /\ UNCHANGED not_model_vars

\* the perturbation test: one row, every token sequence that fits the context
CausalInit ==
    /\ config \in {c \in Configs : c.vocab_size = MaxVocab /\ c.n_embd = MaxEmbd /\ c.n_heads = 1}
    /\ \E t \in 1..config.max_seq_len : idx \in AllInputs(1, t, config.vocab_size)
    /\ targets = None
    /\ ModelStart

\* after a forward call, change one token, or append one token to every row,
\* and keep the first call's input and logits for comparison
Perturb ==
    /\ fwd_status = "ok"
    /\ idx0 = <<>>
    /\ \/ \E r \in 1..NumRows(idx), j \in 1..NumCols(idx), tok \in 0..(config.vocab_size - 1) :
             /\ tok # idx[r][j]
             /\ idx' = [idx EXCEPT ![r][j] = tok]
             /\ targets' = targets
       \/ \E col \in [1..NumRows(idx) -> 0..(config.vocab_size - 1)] :
             /\ idx' = [r \in 1..NumRows(idx) |-> Append(idx[r], col[r])]
             /\ targets' = None
    /\ idx0' = idx
    /\ logits0' = logits
    /\ fwd_status' = "idle"
    /\ logits' = NoTensor
    /\ loss' = NoTensor
    /\ evaluated' = <<>>
    /\ UNCHANGED <<config, model_status, model>>
    /\ UNCHANGED not_model_vars


(***************************************************************************)
(* Constructing a CausalSelfAttention and calling it directly.             *)
(***************************************************************************)
NoAttn ==
    [ ok |-> FALSE, max_seq_len |-> 0, n_embd |-> 0, n_heads |-> 0, head_dim |-> 0,
      bias |-> <<>> ]

AttnConfigs == {c \in Configs : c.n_layers = 0 /\ c.vocab_size = 1}

\* activations of shape b x t x c, one symbol per position
Activations(b, t, c) ==
    Tensor(<<b, t, c>>, [r \in 1..b |-> [i \in 1..t |-> <<"x", r - 1, i - 1>>]])

AttnStart ==
    /\ attn_status = "none"
    /\ attn = NoAttn
    /\ attn_y = NoTensor

\* any configuration; activations up to one position longer than the context
AttnInit ==
    /\ attn_config \in AttnConfigs
    /\ \E b \in 1..MaxBatch, t \in 1..(attn_config.max_seq_len + 1) :
          attn_x = Activations(b, t, attn_config.n_embd)
    /\ AttnStart

\* attn = CausalSelfAttention(config)
AttnConstruct ==
    /\ attn_status = "none"
    /\ LET a == CausalSelfAttentionInit(attn_config)
       IN  IF a.ok
           THEN attn_status' = "built" /\ attn' = a
           ELSE attn_status' = "init_error" /\ attn' = NoAttn
    /\ UNCHANGED <<attn_config, attn_x, attn_y>>
    /\ UNCHANGED not_attn_vars

\* y = attn(x)
AttnForward ==
    /\ attn_status = "built"
    /\ LET out == CausalSelfAttentionForward(attn, 0, attn_x)
       IN  /\ attn_y' = out
           /\ attn_status' = IF out.present THEN "ok" ELSE "error"
    /\ UNCHANGED <<attn_config, attn, attn_x>>
    /\ UNCHANGED not_attn_vars

AttnIdle ==
    /\ attn_config = [max_seq_len |-> 1, vocab_size |-> 1, n_layers |-> 0, n_heads |-> 1, n_embd |-> 1]
    /\ attn_x = NoTensor
    /\ AttnStart

AttnNext == AttnConstruct \/ AttnForward


(***************************************************************************)
(* Transformer.from_pretrained                                             *)
(*                                                                         *)
(* A state dict is a sequence of entries: the key, a sequence of the       *)
(* dot-separated parts of its name; the shape; and the data, the elements  *)
(* in row-major order.  Every name part used here is a whole word, so a    *)
(* name ends with a dotted suffix exactly when its last parts are the      *)
(* suffix's parts.                                                         *)
(***************************************************************************)
\* the model types of lines 170-177, scaled down to sizes TLC can enumerate
ImportPresets ==
    { [max_seq_len |-> 2, vocab_size |-> 2, n_layers |-> 1, n_heads |-> 1, n_embd |-> 1],
      [max_seq_len |-> 2, vocab_size |-> 3, n_layers |-> 2, n_heads |-> 2, n_embd |-> 2] }

LayerName(l) == <<"0", "1", "2", "3">>[l + 1]

RECURSIVE Product(_)
Product(shape) == IF shape = <<>> THEN 1 ELSE Head(shape) * Product(Tail(shape))

RECURSIVE Concat(_)
Concat(seqs) == IF seqs = <<>> THEN <<>> ELSE Head(seqs) \o Concat(Tail(seqs))

\* shape[::-1]
Reversed(shape) == [i \in 1..Len(shape) |-> shape[Len(shape) + 1 - i]]

\* str.endswith
EndsWith(key, suffix) ==
    /\ Len(key) >= Len(suffix)
    /\ SubSeq(key, Len(key) - Len(suffix) + 1, Len(key)) = suffix

\* a list of transposed weights that leaves out the attention out-projection
IsTransposed_NoAttnProj(key) ==
    \/ EndsWith(key, <<"attn", "c_attn", "weight">>)
    \/ EndsWith(key, <<"mlp", "c_fc", "weight">>)
    \/ EndsWith(key, <<"mlp", "c_proj", "weight">>)

\* lines 193, 198: any(k.endswith(w) for w in transposed)
IsTransposed(key) ==
    \/ EndsWith(key, <<"attn", "c_attn", "weight">>)
    \/ EndsWith(key, <<"attn", "c_proj", "weight">>)
    \/ EndsWith(key, <<"mlp", "c_fc", "weight">>)
    \/ EndsWith(key, <<"mlp", "c_proj", "weight">>)

\* line 183: the model's keys that are parameters
IsModelBuffer(key) == EndsWith(key, <<"attn", "bias">>)

\* lines 191-192: the checkpoint's keys that are parameters
IsCheckpointBuffer(key) ==
    EndsWith(key, <<"attn", "masked_bias">>) \/ EndsWith(key, <<"attn", "bias">>)

\* the names and shapes of the parameters and buffers of one block (lines 46-51,
\* 91-93, 107-113), a Linear(in, out) holding a weight of shape out x in
BlockEntries(l, cfg) ==
    LET e == cfg.n_embd
        at(parts, shape) == [key |-> <<"transformer", "h", LayerName(l)>> \o parts,
                             shape |-> shape]
    IN  << at(<<"ln_1", "weight">>, <<e>>),
           at(<<"ln_1", "bias">>, <<e>>),
           at(<<"attn", "bias">>, <<1, 1, cfg.max_seq_len, cfg.max_seq_len>>),
           at(<<"attn", "c_attn", "weight">>, <<3 * e, e>>),
           at(<<"attn", "c_attn", "bias">>, <<3 * e>>),
           at(<<"attn", "c_proj", "weight">>, <<e, e>>),
           at(<<"attn", "c_proj", "bias">>, <<e>>),
           at(<<"ln_2", "weight">>, <<e>>),
           at(<<"ln_2", "bias">>, <<e>>),
           at(<<"mlp", "c_fc", "weight">>, <<4 * e, e>>),
           at(<<"mlp", "c_fc", "bias">>, <<4 * e>>),
           at(<<"mlp", "c_proj", "weight">>, <<e, 4 * e>>),
           at(<<"mlp", "c_proj", "bias">>, <<e>>) >>

\* lines 126-132: the names and shapes of model.state_dict()
ModelEntries(cfg) ==
    << [key |-> <<"transformer", "wte", "weight">>, shape |-> <<cfg.vocab_size, cfg.n_embd>>],
       [key |-> <<"transformer", "wpe", "weight">>, shape |-> <<cfg.max_seq_len, cfg.n_embd>>] >>
    \o Concat([l \in 1..cfg.n_layers |-> BlockEntries(l - 1, cfg)])
    \o << [key |-> <<"transformer", "ln_f", "weight">>, shape |-> <<cfg.n_embd>>],
          [key |-> <<"transformer", "ln_f", "bias">>, shape |-> <<cfg.n_embd>>],
          [key |-> <<"lm_head", "weight">>, shape |-> <<cfg.vocab_size, cfg.n_embd>>] >>

\* line 181: the state dict of a freshly initialised model; its values, drawn at
\* random by the constructor, are the negative numbers
FreshStateDict(cfg) ==
    LET es == ModelEntries(cfg)
    IN  [q \in 1..Len(es) |->
            [key |-> es[q].key, shape |-> es[q].shape,
             data |-> [n \in 1..Product(es[q].shape) |-> 0 - (100 * q + n)]]]

\* Tensor.t(): a matrix of shape r x c becomes c x r; a vector is returned as is
Transpose(t) ==
    IF Len(t.shape) < 2 THEN t
    ELSE LET r == t.shape[1]
             c == t.shape[2]
         IN  [key |-> t.key, shape |-> <<c, r>>,
              data |-> [n \in 1..(r * c) |->
                          t.data[((n - 1) % r) * c + ((n - 1) \div r) + 1]]]

\* the position of key in a state dict, 0 when it has no such key
Lookup(dict, key) ==
    IF \E q \in 1..Len(dict) : dict[q].key = key
    THEN CHOOSE q \in 1..Len(dict) : dict[q].key = key
    ELSE 0

\* lines 183, 191-192: the keys that take part, in the dict's order
ModelKeys(dict) ==
    LET ks == [q \in 1..Len(dict) |-> dict[q].key]
    IN  SelectSeq(ks, LAMBDA k : ~IsModelBuffer(k))

CheckpointKeys(dict) ==
    LET ks == [q \in 1..Len(dict) |-> dict[q].key]
    IN  SelectSeq(ks, LAMBDA k : ~IsCheckpointBuffer(k))

\* a count check that lets every checkpoint through
CountsAgree_Always(keys_hf, keys) == TRUE

\* line 196: assert len(sd_keys_hf) == len(sd_keys)
CountsAgree(keys_hf, keys) == Len(keys_hf) = Len(keys)

\* lines 200, 205: the shape the checkpoint's tensor must have
ShapeAgrees(key, shape_hf, shape) ==
    IF IsTransposed(key) THEN Reversed(shape_hf) = shape ELSE shape_hf = shape

\* lines 202, 207: what is copied into the model's tensor
Copied(src) == IF IsTransposed(src.key) THEN Transpose(src) ELSE src

\* lines 196, 200, 205: an assertion (or a missing key) raises; the model is a
\* local of from_pretrained and the caller gets no value
Raise(dict) == [present |-> FALSE, sd |-> <<>>]

\* line 209: return model
Return(dict) == [present |-> TRUE, sd |-> dict]

(***************************************************************************)
(* The checkpoints the external source may deliver for a model type: the   *)
(* well-formed one (Conv1D weights stored in x out), with or without the   *)
(* mask buffers, and that checkpoint with one entry dropped, renamed,      *)
(* turned into a buffer name, reshaped, or stored untransposed.            *)
(***************************************************************************)
GoodCheckpoint(cfg, with_buffers) ==
    LET es == ModelEntries(cfg)
        entry(q) ==
            LET shape == IF IsTransposed(es[q].key) THEN Reversed(es[q].shape)
                         ELSE es[q].shape
            IN  [key |-> es[q].key, shape |-> shape,
                 data |-> [n \in 1..Product(shape) |-> 100 * q + n]]
        masked(q) == [key |-> SubSeq(es[q].key, 1, Len(es[q].key) - 1) \o <<"masked_bias">>,
                      shape |-> <<>>, data |-> <<100 * q>>]
    IN  Concat([q \in 1..Len(es) |->
            IF IsModelBuffer(es[q].key)
            THEN IF with_buffers THEN <<entry(q), masked(q)>> ELSE <<>>
            ELSE <<entry(q)>>])

Without(dict, q) == SubSeq(dict, 1, q - 1) \o SubSeq(dict, q + 1, Len(dict))

Defective(dict, q, how) ==
    CASE how = "dropped" -> Without(dict, q)
      [] how = "renamed" ->
            [dict EXCEPT ![q].key = <<"transformer", "extra", "weight">>]
      [] how = "buffer_name" ->
            [dict EXCEPT ![q].key = <<"transformer", "h", "0", "attn", "bias">>]
      [] how = "reshaped" ->
            [dict EXCEPT ![q].shape = <<Product(dict[q].shape), 1>>,
                         ![q].data = dict[q].data]
      [] how = "untransposed" -> [dict EXCEPT ![q] = Transpose(dict[q])]

Checkpoints(cfg) ==
    LET good == { GoodCheckpoint(cfg, wb) : wb \in BOOLEAN }
    IN  good \cup
        { Defective(g, q, how) :
            g \in { GoodCheckpoint(cfg, FALSE) },
            q \in 1..Len(GoodCheckpoint(cfg, FALSE)),
            how \in {"dropped", "renamed", "buffer_name", "reshaped", "untransposed"} }

ImportStartState ==
    /\ sd = <<>>
    /\ import_pc = "start"
    /\ import_k = 0
    /\ result = [present |-> FALSE, sd |-> <<>>]

ImportInit ==
    /\ preset \in ImportPresets
    /\ sd_hf \in Checkpoints(preset)
    /\ ImportStartState

\* lines 180-196: build the model, load the checkpoint, compare the key counts
ImportBegin ==
    /\ import_pc = "start"
    /\ LET fresh == FreshStateDict(preset)
       IN  /\ sd' = fresh
           /\ IF CountsAgree(CheckpointKeys(sd_hf), ModelKeys(fresh))
              THEN import_pc' = "copy" /\ import_k' = 1 /\ result' = result
              ELSE import_pc' = "raised" /\ import_k' = 0 /\ result' = Raise(fresh)
    /\ UNCHANGED <<preset, sd_hf>>
    /\ UNCHANGED not_import_vars

\* lines 197-207: one iteration of the copy loop
ImportCopy ==
    /\ import_pc = "copy"
    /\ import_k <= Len(CheckpointKeys(sd_hf))
    /\ LET k == CheckpointKeys(sd_hf)[import_k]
           src == sd_hf[Lookup(sd_hf, k)]
           q == Lookup(sd, k)
       IN  IF q = 0 \/ ~ShapeAgrees(k, src.shape, sd[IF q = 0 THEN 1 ELSE q].shape)
           THEN /\ import_pc' = "raised"
                /\ result' = Raise(sd)
                /\ UNCHANGED <<sd, import_k>>
           ELSE /\ sd' = [sd EXCEPT ![q].data = Copied(src).data]
                /\ import_k' = import_k + 1
                /\ UNCHANGED <<import_pc, result>>
    /\ UNCHANGED <<preset, sd_hf>>
    /\ UNCHANGED not_import_vars

\* line 209: the loop is over
ImportReturn ==
    /\ import_pc = "copy"
    /\ import_k > Len(CheckpointKeys(sd_hf))
    /\ import_pc' = "done"
    /\ result' = Return(sd)
    /\ UNCHANGED <<preset, sd_hf, sd, import_k>>
    /\ UNCHANGED not_import_vars

ImportIdle ==
    /\ preset = [max_seq_len |-> 1, vocab_size |-> 1, n_layers |-> 0, n_heads |-> 1, n_embd |-> 1]
    /\ sd_hf = <<>>
    /\ ImportStartState

ImportNext == ImportBegin \/ ImportCopy \/ ImportReturn

ModelIdle ==
    /\ config = [max_seq_len |-> 1, vocab_size |-> 1, n_layers |-> 0, n_heads |-> 1, n_embd |-> 1]
    /\ idx = <<>>
    /\ targets = None
    /\ ModelStart

LoaderIdle ==
    /\ tokens = <<>> /\ B = 1 /\ T = 1 /\ current_position = 0
    /\ x = None /\ y = None /\ loader_status = "ready" /\ calls = 0 /\ wraps = 0

ModelNext == Construct \/ Forward

InitModel == ModelInit /\ LoaderIdle /\ AttnIdle /\ ImportIdle

InitAttn == AttnInit /\ LoaderIdle /\ ModelIdle /\ ImportIdle

InitImport == ImportInit /\ LoaderIdle /\ ModelIdle /\ AttnIdle

SpecImport == InitImport /\ [][ImportNext]_vars

SpecAttn == InitAttn /\ [][AttnNext]_vars

SpecModel == InitModel /\ [][ModelNext]_vars

CausalNext == Construct \/ Forward \/ Perturb

InitCausal == CausalInit /\ LoaderIdle /\ AttnIdle /\ ImportIdle

SpecCausal == InitCausal /\ [][CausalNext]_vars

InitLoader == LoaderInit /\ ModelIdle /\ AttnIdle /\ ImportIdle

SpecLoader == InitLoader /\ [][LoaderNext]_vars

(***************************************************************************)
(* Properties of the batcher.                                              *)
(***************************************************************************)
\* the stream is long enough for one batch
StreamHoldsABatch == Len(tokens) >= B * T + 1

\* C1: a call made at cursor c with c + B*T + 1 <= M returns
\* input[b][t] = tokens[c + b*T + t] and target[b][t] = tokens[c + b*T + t + 1]
\* for every b in 0..B-1 and t in 0..T-1.
C1_TargetIsNextInput ==
    [][ (next_batch /\ StreamHoldsABatch
           /\ current_position + B * T + 1 <= Len(tokens))
        => /\ loader_status' = "ok"
           /\ \A b \in 0..(B - 1), t \in 0..(T - 1) :
                /\ x'[b + 1][t + 1] = tokens[(current_position + b * T + t) + 1]
                /\ y'[b + 1][t + 1] = tokens[(current_position + b * T + t + 1) + 1]
      ]_vars

\* the spec's example: stream 0,1,2,..., B=2, T=3, first call
C1_Witness ==
    /\ loader_status = "ok" /\ calls = 1 /\ B = 2 /\ T = 3
    /\ tokens = [i \in 1..Len(tokens) |-> i - 1]
    /\ x = << <<0, 1, 2>>, <<3, 4, 5>> >>
    /\ y = << <<1, 2, 3>>, <<4, 5, 6>> >>
    /\ current_position = 6

\* C2: every call advances the cursor by B*T, and the cursor becomes 0 exactly
\* on the overflowing call: the call on which the read of B*T+1 tokens starting
\* at the advanced cursor would exceed M.  On every other call the cursor stays
\* advanced by B*T.
C2_ResetOnOverflowingCall ==
    [][ (next_batch /\ StreamHoldsABatch)
        => LET advanced == current_position + B * T
           IN  /\ (current_position' = 0) <=> (advanced + (B * T + 1) > Len(tokens))
               /\ (current_position' # 0) => (current_position' = advanced)
      ]_vars

\* The cursor a call is made with never overflows: the call that resets is the
\* last one whose own read fits in the stream.
C2_OwnReadFits ==
    [][ (next_batch /\ StreamHoldsABatch)
        => current_position + (B * T + 1) <= Len(tokens) ]_vars

\* a reset after at least two calls: the cursor had moved and came back
C2_Witness ==
    /\ StreamHoldsABatch /\ loader_status = "ok"
    /\ wraps = 1 /\ calls >= 2 /\ current_position = 0

\* C9: starting from cursor 0, the cursor first returns to 0 after exactly
\* M // (B*T) calls.
C9_EpochIsMDivBT ==
    (StreamHoldsABatch /\ loader_status = "ok" /\ wraps = 1 /\ current_position = 0)
        => calls = Len(tokens) \div (B * T)

\* C10: with M >= B*T+1 no call fails or returns a short batch, the cursor is a
\* non-negative multiple of B*T with cursor + B*T + 1 <= M, and no token at an
\* index above ((M-1) // (B*T)) * (B*T) is read or returned.
LastReturnedIndex == ((Len(tokens) - 1) \div (B * T)) * (B * T)

C10_CursorInvariant ==
    StreamHoldsABatch =>
        /\ loader_status # "error"
        /\ current_position >= 0
        /\ current_position % (B * T) = 0
        /\ current_position + B * T + 1 <= Len(tokens)
        /\ current_position + B * T <= LastReturnedIndex
        /\ loader_status = "ok" =>
              /\ Len(x) = B /\ Len(y) = B
              /\ \A r \in 1..B : Len(x[r]) = T /\ Len(y[r]) = T
              /\ (tokens = [i \in 1..Len(tokens) |-> i - 1]) =>
                    \A r \in 1..B, c \in 1..T :
                        x[r][c] <= LastReturnedIndex /\ y[r][c] <= LastReturnedIndex

\* a wrapped run over a stream whose tail is dropped
C10_Witness ==
    /\ StreamHoldsABatch /\ loader_status = "ok" /\ wraps >= 2
    /\ Len(tokens) - 1 > LastReturnedIndex
    /\ B * T > 1

(***************************************************************************)
(* Properties of the Transformer.                                          *)
(***************************************************************************)
\* C3: a forward call on B x T tokens with T > max_seq_len fails on the
\* assertion before any embedding or block is evaluated and returns nothing;
\* with T <= max_seq_len it returns logits of shape B x T x vocab_size, and a
\* loss, a single scalar, exactly when targets were supplied.
C3_ForwardShapes ==
    fwd_status # "idle" =>
        IF NumCols(idx) > config.max_seq_len
        THEN /\ fwd_status = "assert"
             /\ evaluated = <<>>
             /\ ~logits.present /\ ~loss.present
        ELSE /\ fwd_status = "ok"
             /\ logits.present
             /\ logits.shape = <<NumRows(idx), NumCols(idx), config.vocab_size>>
             /\ loss.present <=> (targets # None)
             /\ loss.present => loss.shape = <<>>

\* a call that returns logits and a loss at the longest context
C3_ReturnsWithLoss ==
    /\ fwd_status = "ok" /\ loss.present /\ NumRows(idx) = 2
    /\ NumCols(idx) = config.max_seq_len /\ config.max_seq_len >= 2
    /\ config.n_layers >= 1 /\ config.vocab_size = 2

\* a call with targets on an input one position too long, which fails
C3_Witness ==
    /\ fwd_status = "assert" /\ targets # None /\ NumRows(idx) = 2
    /\ NumCols(idx) = config.max_seq_len + 1 /\ config.max_seq_len >= 2
    /\ config.n_layers >= 1

\* C5 as stated: no model whose n_embd is not divisible by n_heads is ever
\* constructed.
C5_NoModelWithIndivisibleEmbd ==
    model_status = "built" => config.n_embd % config.n_heads = 0

\* what the constructor does enforce: the check runs once per block
C5_CheckedPerBlock ==
    (model_status = "built" /\ config.n_layers >= 1) => config.n_embd % config.n_heads = 0

\* C4: the logits at positions 0..i depend only on the tokens at 0..i: two
\* inputs that agree on positions 0..i give the same logits at positions 0..i.
C4_Causal ==
    (fwd_status = "ok" /\ logits0.present) =>
        \A r \in 1..NumRows(idx), i \in 1..Min(NumCols(idx), NumCols(idx0)) :
            (\A j \in 1..i : idx[r][j] = idx0[r][j])
                => (\A j \in 1..i : logits.val[r][j] = logits0.val[r][j])

\* a changed last token under two stacked blocks: the logits before it are
\* unchanged, the logits at it are not
C4_Witness ==
    /\ fwd_status = "ok" /\ logits0.present
    /\ config.n_layers = 2 /\ NumCols(idx) = 3 /\ NumCols(idx0) = 3
    /\ idx[1][3] # idx0[1][3]
    /\ logits.val[1][1] = logits0.val[1][1]
    /\ logits.val[1][2] = logits0.val[1][2]
    /\ logits.val[1][3] # logits0.val[1][3]

(***************************************************************************)
(* Properties of CausalSelfAttention called directly.                      *)
(***************************************************************************)
\* C8: a direct forward call on activations with T > max_seq_len always fails.
C8_LongInputAlwaysFails ==
    (attn_status \in {"ok", "error"} /\ attn_x.shape[2] > attn_config.max_seq_len)
        => attn_status = "error"

\* what the code does: the call fails whenever max_seq_len >= 2
C8_LongInputFailsFromTwo ==
    (attn_status \in {"ok", "error"} /\ attn_x.shape[2] > attn_config.max_seq_len
        /\ attn_config.max_seq_len >= 2)
        => attn_status = "error"

\* with max_seq_len = 1 the 1 x 1 mask is broadcast and the first position
\* attends to the second
C8_BroadcastMaskReached ==
    /\ attn_status = "ok" /\ attn_config.max_seq_len = 1 /\ attn_x.shape[2] = 2
    /\ Len(attn_y.val[1][1][4]) = 2

(***************************************************************************)
(* Properties of the importer.                                             *)
(***************************************************************************)
\* the four projection weights the claims name
NamedProjection(key) ==
    \E name \in { <<"attn", "c_attn", "weight">>, <<"attn", "c_proj", "weight">>,
                  <<"mlp", "c_fc", "weight">>, <<"mlp", "c_proj", "weight">> } :
        EndsWith(key, name)

\* the checkpoint entries that are not mask buffers
Filtered(dict) ==
    { p \in 1..Len(dict) :
        /\ ~EndsWith(dict[p].key, <<"attn", "masked_bias">>)
        /\ ~EndsWith(dict[p].key, <<"attn", "bias">>) }

\* C6: after a successful import every entry of the model's state dict whose
\* key does not end in .attn.bias holds the values of exactly one checkpoint
\* entry of the same name: the transpose for the four projection weights, the
\* tensor itself for every other entry; no initial value is left.
C6_EveryParameterImported ==
    import_pc = "done" =>
        /\ result.present
        /\ \A q \in 1..Len(result.sd) :
              LET e == result.sd[q]
                  same == { p \in 1..Len(sd_hf) : sd_hf[p].key = e.key }
              IN  ~EndsWith(e.key, <<"attn", "bias">>) =>
                    /\ Cardinality(same) = 1
                    /\ \A n \in 1..Len(e.data) : e.data[n] >= 0
                    /\ \A p \in same :
                          IF NamedProjection(e.key)
                          THEN /\ e.shape = <<sd_hf[p].shape[2], sd_hf[p].shape[1]>>
                               /\ \A i \in 1..e.shape[1], j \in 1..e.shape[2] :
                                     e.data[(i - 1) * e.shape[2] + j]
                                        = sd_hf[p].data[(j - 1) * e.shape[1] + i]
                          ELSE e.shape = sd_hf[p].shape /\ e.data = sd_hf[p].data

\* a finished import of the two-layer model type from a checkpoint with buffers
C6_Witness ==
    /\ import_pc = "done" /\ preset.n_layers = 2 /\ result.present
    /\ Len(sd_hf) > Cardinality(Filtered(sd_hf))
    /\ \E q \in 1..Len(result.sd) :
          /\ EndsWith(result.sd[q].key, <<"mlp", "c_fc", "weight">>)
          /\ result.sd[q].shape = <<8, 2>>
          /\ result.sd[q].data[2] >= 0

\* the checkpoint disagrees with the model in its parameter count or in the
\* shape of a tensor, the four projection weights compared reversed
C7_Mismatch ==
    LET es == ModelEntries(preset)
        params == { q \in 1..Len(es) : ~EndsWith(es[q].key, <<"attn", "bias">>) }
    IN  \/ Cardinality(Filtered(sd_hf)) # Cardinality(params)
        \/ \E p \in Filtered(sd_hf), q \in params :
              /\ sd_hf[p].key = es[q].key
              /\ es[q].shape # IF NamedProjection(es[q].key)
                               THEN Reversed(sd_hf[p].shape) ELSE sd_hf[p].shape

\* C7: on a count or shape mismatch from_pretrained aborts, and a call that
\* aborts hands no model, written to or not, to its caller.
C7_AbortLeavesNoModel ==
    /\ import_pc = "raised" => ~result.present
    /\ C7_Mismatch => (import_pc # "done" /\ ~result.present)

\* an import that raised after some tensors had been overwritten
C7_Witness ==
    /\ import_pc = "raised" /\ import_k >= 2 /\ C7_Mismatch
    /\ \E q \in 1..Len(sd) : sd[q].data[1] >= 0
    /\ \E q \in 1..Len(sd) : ~EndsWith(sd[q].key, <<"attn", "bias">>) /\ sd[q].data[1] < 0

=============================================================================
